---- MODULE Spec2Model ----
(***************************************************************************)
(* Model of src/document_similarity.py: character k-shingling with CRC-32, *)
(* exact Jaccard similarity, generation of the hash coefficients,          *)
(* min-hashing, comparison of min-hash signatures and the interactive main *)
(* loop that chains them.                                                   *)
(*                                                                         *)
(* Three specifications:                                                    *)
(*   UnitSpec  one call of a pure function (shingling, compare_sets,       *)
(*             min_hashing, compare_signatures) on arguments drawn from    *)
(*             bounded sets;                                                *)
(*   GenSpec   generate_random_coefficient, one action per loop step, the  *)
(*             draws of random.randint being the nondeterminism            *)
(*             (GenFairSpec adds the fairness of the draws);               *)
(*   Spec      the main loop, which runs the generator's steps twice.      *)
(*                                                                         *)
(* Numbers.  TLC's integers are 32-bit signed, Python's are unbounded.     *)
(* A CRC-32 value (up to 2^32 - 1) is therefore kept as two 16-bit halves, *)
(* and a hash value (a*x + b) % c is computed as                            *)
(* (a * (x % c) + b) % c, which is the same number.  The modulus           *)
(* 2^32 - 1 and the 100 hash functions of the main loop are scaled down.   *)
(***************************************************************************)
EXTENDS Integers, Sequences, FiniteSets, TLC

VARIABLES
    call,                       \* UnitSpec: the function called and its arguments
    ret,                        \* UnitSpec: what the call returned or raised
    gen,                        \* the frame of generate_random_coefficient
    pc,                         \* main: position in the loop body
    books_list,                 \* main: the normalized text of each file of data/
    num_of_books, k, s,         \* main: the three inputs of an iteration
    parsed_docs_map,            \* main: book -> normalized text
    hashed_shingles_docs,       \* main: book -> set of hashed shingles
    random_coefficients_a,      \* module-level coefficient list a
    random_coefficients_b,      \* module-level coefficient list b
    min_hashed_shingles_docs,   \* main: book -> signature
    sim_books, not_sim_books    \* main: the classified pairs

vars == <<call, ret, gen, pc, books_list, num_of_books, k, s, parsed_docs_map,
          hashed_shingles_docs, random_coefficients_a, random_coefficients_b,
          min_hashed_shingles_docs, sim_books, not_sim_books>>

unitVars == <<call, ret>>
mainVars == <<pc, books_list, num_of_books, k, s, parsed_docs_map,
              hashed_shingles_docs, min_hashed_shingles_docs, sim_books,
              not_sim_books>>
coefVars == <<random_coefficients_a, random_coefficients_b>>

----------------------------------------------------------------------------
(* Bounds of the model.                                                    *)

\* longest text of a shingling call
MaxLen == 3
\* largest k of a shingling call
MaxK == 3
\* shingle sets of the unit calls are subsets of the words of 0..MaxShingle
MaxShingle == 2
\* signature components of a compare_signatures call range over 0..MaxVal
MaxVal == 2
\* longest signature of a compare_signatures call
MaxSigLen == 2
\* min_hashing is called with max_hash_value in 1..MaxM
MaxM == 2
\* ... and with no_of_hash_functions in 0..MaxH
MaxH == 2
\* generate_random_coefficient is called with max_hash_value in 0..MaxGenM
MaxGenM == 2
\* ... and with no_of_hash_functions in 0..MaxGenH
MaxGenH == 3
\* main: num_of_books and k are accepted in nums = 2..MaxNum (2..10 in the code)
MaxNum == 2
\* main: its no_of_hash_functions (100 in the code)
main_no_of_hash_functions == 2
\* main: its max_hash_value (2^32 - 1 in the code)
main_max_hash_value == 2

----------------------------------------------------------------------------
(* 32-bit words, held as <<high half, low half>>, two 16-bit numbers.      *)

Half == 2 ^ 16

\* the word of a number below 2^31
Word(n) == <<n \div Half, n % Half>>

\* bitwise exclusive or of two naturals
RECURSIVE XorN(_, _)
XorN(a, b) ==
    IF a = 0 THEN b
    ELSE IF b = 0 THEN a
    ELSE ((a + b) % 2) + 2 * XorN(a \div 2, b \div 2)

XorW(a, b) == <<XorN(a[1], b[1]), XorN(a[2], b[2])>>

\* a >> 1
ShrW(a) == <<a[1] \div 2, (a[2] \div 2) + (a[1] % 2) * (Half \div 2)>>

\* 0xFFFFFFFF
AllOnes == <<Half - 1, Half - 1>>

\* x % c for a word x and a modulus c below 2^15
WordMod(x, c) == ((x[1] % c) * (Half % c) + (x[2] % c)) % c

(* binascii.crc32: the reflected CRC-32 of zlib, polynomial 0xEDB88320,    *)
(* register preset to and finally inverted with 0xFFFFFFFF.                *)
CrcPoly == <<14 * 4096 + 13 * 256 + 11 * 16 + 8, 8 * 4096 + 3 * 256 + 2 * 16 + 0>>

RECURSIVE CrcShift(_, _)
CrcShift(w, n) ==
    IF n = 0 THEN w
    ELSE CrcShift(IF w[2] % 2 = 1 THEN XorW(ShrW(w), CrcPoly) ELSE ShrW(w), n - 1)

RECURSIVE CrcBytes(_, _, _)
CrcBytes(bytes, j, reg) ==
    IF j > Len(bytes) THEN reg
    ELSE CrcBytes(bytes, j + 1, CrcShift(XorW(reg, Word(bytes[j])), 8))

\* binascii.crc32(bytes) & 0xffffffff: the mask leaves a 32-bit word as it is
crc32(bytes) == XorW(CrcBytes(bytes, 1, AllOnes), AllOnes)

----------------------------------------------------------------------------
(* Texts: strings of the characters '_', 'a' and 'b', each held as its     *)
(* code point, which is also its one byte under str.encode().              *)

Alphabet == {95, 97, 98}

Strings(n) == UNION {[1..m -> Alphabet] : m \in 0..n}

\* s[i:j] of Python for 0 <= i <= j: clipped to the end of s
Slice(str, i, j) == SubSeq(str, i + 1, IF j > Len(str) THEN Len(str) ELSE j)

----------------------------------------------------------------------------
(* shingling(s, k)                                                         *)

\* the loop with range(len(s) - k): the last window is lost
RECURSIVE shingling_short_loop(_, _, _, _)
shingling_short_loop(str, kk, i, h_shingles_set) ==
    IF i >= Len(str) - kk THEN h_shingles_set
    ELSE shingling_short_loop(str, kk, i + 1,
                              h_shingles_set \cup {crc32(Slice(str, i, i + kk))})

shingling_short(str, kk) == shingling_short_loop(str, kk, 0, {})

RECURSIVE shingling_loop(_, _, _, _)
shingling_loop(str, kk, i, h_shingles_set) ==
    IF i >= Len(str) - kk + 1 THEN h_shingles_set
    ELSE LET hashed_shingle == crc32(Slice(str, i, i + kk))
         IN  shingling_loop(str, kk, i + 1,
                            IF hashed_shingle \notin h_shingles_set
                            THEN h_shingles_set \cup {hashed_shingle}
                            ELSE h_shingles_set)

shingling(str, kk) == shingling_loop(str, kk, 0, {})

----------------------------------------------------------------------------
(* What a call gives back: a value, or the exception it raises.            *)

Return(v) == [kind |-> "return", value |-> v]

Raise(e) == [kind |-> "raise", error |-> e]

\* a / b of two integers, b > 0, kept as the fraction <<a, b>>
Ratio(a, b) == <<a, b>>

\* x == 1.0 for a fraction
IsOne(x) == x[1] = x[2]

\* x >= y for two fractions
AtLeast(x, y) == x[1] * y[2] >= y[1] * x[2]

----------------------------------------------------------------------------
(* compare_sets(set1, set2)                                                *)

compare_sets(set1, set2) ==
    IF Cardinality(set1 \cup set2) = 0 THEN Raise("ZeroDivisionError")
    ELSE LET jaccard_similarity ==
                 Ratio(Cardinality(set1 \cap set2), Cardinality(set1 \cup set2))
         IN  Return(jaccard_similarity)

----------------------------------------------------------------------------
(* min_hashing(hashed_shingle_set, no_of_hash_functions, max_hash_value)   *)
(* reads the module-level random_coefficients_a and random_coefficients_b. *)
(* `order` is the sequence in which the for loop meets the elements of     *)
(* hashed_shingle_set: any enumeration of the set without repetition.      *)

\* Python's None: no hash value is negative
None == -1

Range(f) == {f[j] : j \in DOMAIN f}

Orders(S) == {o \in [1..Cardinality(S) -> S] : Range(o) = S}

\* ((a * hash_shingle) + b) % c, hash_shingle a 32-bit word
HashValue(a, hash_shingle, b, c) == ((a * WordMod(hash_shingle, c)) + b) % c

\* lines 115-120: the inner loop from the j-th element on
RECURSIVE min_hash_loop(_, _, _, _, _)
min_hash_loop(order, j, i, max_hash_value, min_hash_value) ==
    IF j > Len(order) THEN min_hash_value
    ELSE LET hash_value == HashValue(random_coefficients_a[i + 1], order[j],
                                     random_coefficients_b[i + 1], max_hash_value)
         IN  min_hash_loop(order, j + 1, i, max_hash_value,
                           IF min_hash_value = None THEN hash_value
                           ELSE IF hash_value < min_hash_value THEN hash_value
                           ELSE min_hash_value)

\* lines 113-121: the outer loop from i on
RECURSIVE min_hashing_loop(_, _, _, _, _)
min_hashing_loop(order, no_of_hash_functions, max_hash_value, i, signatures_list) ==
    IF i >= no_of_hash_functions THEN signatures_list
    ELSE min_hashing_loop(order, no_of_hash_functions, max_hash_value, i + 1,
                          Append(signatures_list,
                                 min_hash_loop(order, 1, i, max_hash_value, None)))

\* min_hashing keeping the first hash value of each hash function: the
\* comparison of line 119 never replaces it
min_hashing_first(order, no_of_hash_functions, max_hash_value) ==
    [i \in 1..no_of_hash_functions |->
        IF Len(order) = 0 THEN None
        ELSE HashValue(random_coefficients_a[i], order[1],
                       random_coefficients_b[i], max_hash_value)]

min_hashing(order, no_of_hash_functions, max_hash_value) ==
    min_hashing_loop(order, no_of_hash_functions, max_hash_value, 0, <<>>)

----------------------------------------------------------------------------
(* compare_signatures(minhash_signatures1, minhash_signatures2)            *)

\* compare_signatures without the assertion of line 136
compare_signatures_unchecked(minhash_signatures1, minhash_signatures2) ==
    IF None \in Range(minhash_signatures1) \cup Range(minhash_signatures2)
    THEN Raise("TypeError")
    ELSE IF Len(minhash_signatures1) = 0 THEN Raise("ZeroDivisionError")
    ELSE Return(Ratio(Cardinality(Range(minhash_signatures1)
                                    \cap Range(minhash_signatures2)),
                      Len(minhash_signatures1)))

(* np.intersect1d sorts the two arrays and their concatenation; an array   *)
(* holding None has dtype object and its sort raises TypeError on the      *)
(* first comparison with a None.  Its value is the sorted array of the     *)
(* distinct values present in both arrays.                                 *)
compare_signatures(minhash_signatures1, minhash_signatures2) ==
    IF Len(minhash_signatures1) # Len(minhash_signatures2)
    THEN Raise("AssertionError")
    ELSE IF None \in Range(minhash_signatures1) \cup Range(minhash_signatures2)
    THEN Raise("TypeError")
    ELSE IF Len(minhash_signatures1) = 0 THEN Raise("ZeroDivisionError")
    ELSE Return(Ratio(Cardinality(Range(minhash_signatures1)
                                    \cap Range(minhash_signatures2)),
                      Len(minhash_signatures1)))

----------------------------------------------------------------------------
(* Values of the variables a specification does not use.                   *)

NoCall == [fn |-> "none"]

NoRet == [kind |-> "none"]

GenFrame(max, n, at) ==
    [max_hash_value |-> max, no_of_hash_functions |-> n, i |-> 0, tmp |-> {},
     random_numbers_list |-> <<>>, random_num |-> None, pc |-> at]

IdleGen == GenFrame(0, 0, "idle")

UnitIdle == call = NoCall /\ ret = NoRet

CoefIdle == random_coefficients_a = <<>> /\ random_coefficients_b = <<>>

MainIdle ==
    /\ pc = "off"
    /\ books_list = <<>>
    /\ num_of_books = 0
    /\ k = 0
    /\ s = Ratio(0, 1)
    /\ parsed_docs_map = <<>>
    /\ hashed_shingles_docs = <<>>
    /\ min_hashed_shingles_docs = <<>>
    /\ sim_books = <<>>
    /\ not_sim_books = <<>>

----------------------------------------------------------------------------
(* generate_random_coefficient(max_hash_value, no_of_hash_functions), one  *)
(* action per step; r is what random.randint(0, max_hash_value) returns.   *)

\* lines 88-92, and 93-94 on a collision: one iteration of the for loop
GenDraw ==
    /\ gen.pc = "for"
    /\ gen.i < gen.no_of_hash_functions
    /\ \E r \in 0..gen.max_hash_value :
          gen' = IF r \notin gen.tmp
                 THEN [gen EXCEPT !.random_num = r,
                                  !.tmp = gen.tmp \cup {r},
                                  !.random_numbers_list = Append(@, r),
                                  !.i = @ + 1]
                 ELSE [gen EXCEPT !.random_num = r, !.pc = "while"]
    /\ UNCHANGED <<unitVars, mainVars, coefVars>>

\* line 95: the test of the while loop holds and its body is entered
GenWhile ==
    /\ gen.pc = "while"
    /\ gen.random_num \in gen.tmp
    /\ gen' = [gen EXCEPT !.pc = "resample"]
    /\ UNCHANGED <<unitVars, mainVars, coefVars>>

\* line 96: the body of the while loop
GenResample ==
    /\ gen.pc = "resample"
    /\ \E r \in 0..gen.max_hash_value :
          gen' = [gen EXCEPT !.random_num = r, !.pc = "while"]
    /\ UNCHANGED <<unitVars, mainVars, coefVars>>

\* lines 95 and 97: the test fails, the loop is left and the number appended;
\* tmp is not updated
GenAppend ==
    /\ gen.pc = "while"
    /\ gen.random_num \notin gen.tmp
    /\ gen' = [gen EXCEPT !.random_numbers_list = Append(@, gen.random_num),
                          !.i = @ + 1,
                          !.pc = "for"]
    /\ UNCHANGED <<unitVars, mainVars, coefVars>>

\* line 98
GenReturn ==
    /\ gen.pc = "for"
    /\ gen.i >= gen.no_of_hash_functions
    /\ gen' = [gen EXCEPT !.pc = "done"]
    /\ UNCHANGED <<unitVars, mainVars, coefVars>>

GenInit ==
    /\ \E max \in 0..MaxGenM, n \in 0..MaxGenH : gen = GenFrame(max, n, "for")
    /\ UnitIdle
    /\ CoefIdle
    /\ MainIdle

GenNext == GenDraw \/ GenWhile \/ GenResample \/ GenAppend \/ GenReturn

GenSpec == GenInit /\ [][GenNext]_vars

(* The statements of a sequential program are executed one after the      *)
(* other (weak fairness of each step), and random.randint, drawing         *)
(* uniformly, returns a value that tmp does not hold, when there is one,   *)
(* after finitely many draws (strong fairness of the fresh draw).          *)
GenResampleFresh == GenResample /\ gen'.random_num \notin gen.tmp

GenFairSpec ==
    /\ GenSpec
    /\ WF_vars(GenDraw)
    /\ WF_vars(GenWhile)
    /\ WF_vars(GenResample)
    /\ WF_vars(GenAppend)
    /\ WF_vars(GenReturn)
    /\ SF_vars(GenResampleFresh)

----------------------------------------------------------------------------
(* One call of a pure function.                                            *)

Shingles == {Word(n) : n \in 0..MaxShingle}

Signatures == UNION {[1..m -> (0..MaxVal) \cup {None}] : m \in 0..MaxSigLen}

UnitInit ==
    /\ \/ /\ \E str \in Strings(MaxLen), kk \in 1..MaxK :
                call = [fn |-> "shingling", s |-> str, k |-> kk]
          /\ CoefIdle
       \/ /\ \E set1 \in SUBSET Shingles, set2 \in SUBSET Shingles :
                call = [fn |-> "compare_sets", set1 |-> set1, set2 |-> set2]
          /\ CoefIdle
       \/ \E set \in SUBSET Shingles, n \in 0..MaxH, max \in 1..MaxM :
             /\ call = [fn |-> "min_hashing", hashed_shingle_set |-> set,
                        no_of_hash_functions |-> n, max_hash_value |-> max]
             /\ random_coefficients_a \in [1..n -> 0..max]
             /\ random_coefficients_b \in [1..n -> 0..max]
       \/ /\ \E sig1 \in Signatures, sig2 \in Signatures :
                call = [fn |-> "compare_signatures", minhash_signatures1 |-> sig1,
                        minhash_signatures2 |-> sig2]
          /\ CoefIdle
    /\ ret = NoRet
    /\ gen = IdleGen
    /\ MainIdle

Shingling ==
    /\ call.fn = "shingling"
    /\ ret = NoRet
    /\ ret' = Return(shingling(call.s, call.k))
    /\ UNCHANGED <<call, gen, mainVars, coefVars>>

CompareSets ==
    /\ call.fn = "compare_sets"
    /\ ret = NoRet
    /\ ret' = compare_sets(call.set1, call.set2)
    /\ UNCHANGED <<call, gen, mainVars, coefVars>>

MinHashing ==
    /\ call.fn = "min_hashing"
    /\ ret = NoRet
    /\ \E order \in Orders(call.hashed_shingle_set) :
          ret' = Return(min_hashing(order, call.no_of_hash_functions,
                                    call.max_hash_value))
    /\ UNCHANGED <<call, gen, mainVars, coefVars>>

CompareSignatures ==
    /\ call.fn = "compare_signatures"
    /\ ret = NoRet
    /\ ret' = compare_signatures(call.minhash_signatures1, call.minhash_signatures2)
    /\ UNCHANGED <<call, gen, mainVars, coefVars>>

UnitNext == Shingling \/ CompareSets \/ MinHashing \/ CompareSignatures

UnitSpec == UnitInit /\ [][UnitNext]_vars

----------------------------------------------------------------------------
(* The main loop (lines 140-237).  A book is named by its position in      *)
(* books_list; reading and cleaning a file yields its normalized text.     *)

nums == 2..MaxNum

\* what int(input()) may give: 0, a number of nums, or another number
Inputs == 0..(MaxNum + 1)

\* what float(input()) may give: 0 or the threshold 0.5
Thresholds == {Ratio(0, 1), Ratio(1, 2)}

\* the normalized texts a file may hold: "a", "ab", "aba"
DocPool == {<<97>>, <<97, 98>>, <<97, 98, 97>>}

\* list(combinations(range(1, n + 1), 2)), in lexicographic order
RECURSIVE CombinationsFrom(_, _, _)
CombinationsFrom(n, a, b) ==
    IF a >= n THEN <<>>
    ELSE IF b > n THEN CombinationsFrom(n, a + 1, a + 2)
    ELSE <<<<a, b>>>> \o CombinationsFrom(n, a, b + 1)

unique_doc_combinations == CombinationsFrom(num_of_books, 1, 2)

Init ==
    /\ pc = "input"
    /\ books_list \in [1..MaxNum -> DocPool]
    /\ num_of_books = 0
    /\ k = 0
    /\ s = Ratio(0, 1)
    /\ parsed_docs_map = <<>>
    /\ hashed_shingles_docs = <<>>
    /\ min_hashed_shingles_docs = <<>>
    /\ sim_books = <<>>
    /\ not_sim_books = <<>>
    /\ CoefIdle
    /\ gen = IdleGen
    /\ UnitIdle

\* lines 146-162 and 236-237: the three prompts, each 0 ending the program
ReadInput ==
    /\ pc = "input"
    /\ \E n \in Inputs, kk \in Inputs, ss \in Thresholds :
          /\ num_of_books' = n
          /\ k' = IF n = 0 THEN k ELSE kk
          /\ s' = IF n = 0 \/ kk = 0 THEN s ELSE ss
          /\ pc' = IF n = 0 \/ kk = 0 \/ ss[1] = 0 THEN "terminated"
                   ELSE IF n \in nums /\ kk \in nums THEN "read"
                   ELSE "input"
    /\ UNCHANGED <<books_list, parsed_docs_map, hashed_shingles_docs,
                   min_hashed_shingles_docs, sim_books, not_sim_books,
                   coefVars, gen, unitVars>>

\* lines 165-180: the first num_of_books files, read and cleaned
ReadDocuments ==
    /\ pc = "read"
    /\ parsed_docs_map' = [book \in 1..num_of_books |-> books_list[book]]
    /\ pc' = "shingle"
    /\ UNCHANGED <<books_list, num_of_books, k, s, hashed_shingles_docs,
                   min_hashed_shingles_docs, sim_books, not_sim_books,
                   coefVars, gen, unitVars>>

\* lines 183-191
ShingleBooks ==
    /\ pc = "shingle"
    /\ hashed_shingles_docs' =
          [book \in 1..num_of_books |-> shingling(parsed_docs_map[book], k)]
    /\ pc' = "gen_a"
    /\ UNCHANGED <<books_list, num_of_books, k, s, parsed_docs_map,
                   min_hashed_shingles_docs, sim_books, not_sim_books,
                   coefVars, gen, unitVars>>

\* lines 194 and 195: generate_random_coefficient is entered
CallGenerate ==
    /\ pc \in {"gen_a", "gen_b"}
    /\ gen.pc = "idle"
    /\ gen' = GenFrame(main_max_hash_value, main_no_of_hash_functions, "for")
    /\ UNCHANGED <<mainVars, coefVars, unitVars>>

\* line 194: random_coefficients_a is bound to what the call returns
AssignCoefficientsA ==
    /\ pc = "gen_a"
    /\ gen.pc = "done"
    /\ random_coefficients_a' = gen.random_numbers_list
    /\ gen' = IdleGen
    /\ pc' = "gen_b"
    /\ UNCHANGED <<books_list, num_of_books, k, s, parsed_docs_map,
                   hashed_shingles_docs, min_hashed_shingles_docs, sim_books,
                   not_sim_books, random_coefficients_b, unitVars>>

\* line 195, and line 200
AssignCoefficientsB ==
    /\ pc = "gen_b"
    /\ gen.pc = "done"
    /\ random_coefficients_b' = gen.random_numbers_list
    /\ gen' = IdleGen
    /\ min_hashed_shingles_docs' = <<>>
    /\ pc' = "minhash"
    /\ UNCHANGED <<books_list, num_of_books, k, s, parsed_docs_map,
                   hashed_shingles_docs, sim_books, not_sim_books,
                   random_coefficients_a, unitVars>>

\* the loop body with the coefficient lists drawn again for each book
MinHashBookRegenerating ==
    /\ pc = "minhash"
    /\ Len(min_hashed_shingles_docs) < num_of_books
    /\ \E a \in [1..main_no_of_hash_functions -> 0..main_max_hash_value] :
          random_coefficients_a' = a
    /\ \E order \in Orders(hashed_shingles_docs[Len(min_hashed_shingles_docs) + 1]) :
          min_hashed_shingles_docs' =
              Append(min_hashed_shingles_docs,
                     min_hashing(order, main_no_of_hash_functions,
                                 main_max_hash_value))
    /\ UNCHANGED <<pc, books_list, num_of_books, k, s, parsed_docs_map,
                   hashed_shingles_docs, sim_books, not_sim_books,
                   random_coefficients_b, gen, unitVars>>

\* lines 201-202: one iteration, the signature of the next book
MinHashBook ==
    /\ pc = "minhash"
    /\ Len(min_hashed_shingles_docs) < num_of_books
    /\ \E order \in Orders(hashed_shingles_docs[Len(min_hashed_shingles_docs) + 1]) :
          min_hashed_shingles_docs' =
              Append(min_hashed_shingles_docs,
                     min_hashing(order, main_no_of_hash_functions,
                                 main_max_hash_value))
    /\ UNCHANGED <<pc, books_list, num_of_books, k, s, parsed_docs_map,
                   hashed_shingles_docs, sim_books, not_sim_books, coefVars,
                   gen, unitVars>>

\* lines 203-212: the loop is over, the pairs are listed
StartComparing ==
    /\ pc = "minhash"
    /\ Len(min_hashed_shingles_docs) >= num_of_books
    /\ sim_books' = <<>>
    /\ not_sim_books' = <<>>
    /\ pc' = "compare"
    /\ UNCHANGED <<books_list, num_of_books, k, s, parsed_docs_map,
                   hashed_shingles_docs, min_hashed_shingles_docs, coefVars,
                   gen, unitVars>>

\* the pair the loop of line 213 is at
combination == unique_doc_combinations[Len(sim_books) + Len(not_sim_books) + 1]

\* lines 213-218: one iteration; an exception of compare_signatures is not
\* caught and ends the program
ComparePair ==
    /\ pc = "compare"
    /\ Len(sim_books) + Len(not_sim_books) < Len(unique_doc_combinations)
    /\ LET r == compare_signatures(min_hashed_shingles_docs[combination[1]],
                                   min_hashed_shingles_docs[combination[2]])
       IN  IF r.kind = "raise"
           THEN /\ pc' = "crashed"
                /\ UNCHANGED <<sim_books, not_sim_books>>
           ELSE LET sim_score == r.value
                IN  /\ pc' = pc
                    /\ IF AtLeast(sim_score, s)
                       THEN /\ sim_books' = Append(sim_books,
                                   <<combination[1], combination[2], sim_score>>)
                            /\ UNCHANGED not_sim_books
                       ELSE /\ not_sim_books' = Append(not_sim_books,
                                   <<combination[1], combination[2], sim_score>>)
                            /\ UNCHANGED sim_books
    /\ UNCHANGED <<books_list, num_of_books, k, s, parsed_docs_map,
                   hashed_shingles_docs, min_hashed_shingles_docs, coefVars,
                   gen, unitVars>>

(* lines 219-235: the results are printed and the loop starts over.  Every *)
(* name of the iteration is assigned again before it is read (lines 146,   *)
(* 151, 156, 171, 184, 194, 195, 200, 211, 212), so the values the         *)
(* iteration leaves behind are dead and are dropped here.                  *)
Report ==
    /\ pc = "compare"
    /\ Len(sim_books) + Len(not_sim_books) >= Len(unique_doc_combinations)
    /\ pc' = "input"
    /\ num_of_books' = 0
    /\ k' = 0
    /\ s' = Ratio(0, 1)
    /\ parsed_docs_map' = <<>>
    /\ hashed_shingles_docs' = <<>>
    /\ min_hashed_shingles_docs' = <<>>
    /\ sim_books' = <<>>
    /\ not_sim_books' = <<>>
    /\ random_coefficients_a' = <<>>
    /\ random_coefficients_b' = <<>>
    /\ UNCHANGED <<books_list, gen, unitVars>>

Next ==
    \/ ReadInput
    \/ ReadDocuments
    \/ ShingleBooks
    \/ CallGenerate
    \/ GenDraw
    \/ GenWhile
    \/ GenResample
    \/ GenAppend
    \/ GenReturn
    \/ AssignCoefficientsA
    \/ AssignCoefficientsB
    \/ MinHashBook
    \/ StartComparing
    \/ ComparePair
    \/ Report

Spec == Init /\ [][Next]_vars

----------------------------------------------------------------------------
(* The claims.                                                             *)

Min(S) == CHOOSE x \in S : \A y \in S : x <= y

Returned(fn) == call.fn = fn /\ ret.kind = "return"

Raised(fn, e) == call.fn = fn /\ ret.kind = "raise" /\ ret.error = e

\* the positions at which two signatures of equal length agree
Agreeing(sig1, sig2) == {j \in 1..Len(sig1) : sig1[j] = sig2[j]}

(* C1: for two signatures of equal length H, compare_signatures returns    *)
(* the number of positions at which they agree, divided by H.              *)
C1_PositionalFraction ==
    Returned("compare_signatures") =>
        ret.value = Ratio(Cardinality(Agreeing(call.minhash_signatures1,
                                               call.minhash_signatures2)),
                          Len(call.minhash_signatures1))

(* C8: compare_signatures called with signatures of different lengths      *)
(* raises the AssertionError of line 136 and returns no score; it returns  *)
(* a score only for signatures of the same length.                         *)
C8_UnequalLengthsRejected ==
    (call.fn = "compare_signatures" /\ ret.kind # "none") =>
        /\ Len(call.minhash_signatures1) # Len(call.minhash_signatures2)
               => (ret.kind = "raise" /\ ret.error = "AssertionError")
        /\ ret.kind = "return"
               => Len(call.minhash_signatures1) = Len(call.minhash_signatures2)

C8_Witness ==
    /\ Raised("compare_signatures", "AssertionError")
    /\ Len(call.minhash_signatures1) > Len(call.minhash_signatures2)
    /\ Len(call.minhash_signatures2) > 0

(* C7: compare_sets returns |set1 & set2| / |set1 | set2|, and for two     *)
(* empty sets it returns a value instead of raising ZeroDivisionError.     *)
C7_JaccardDefined ==
    (call.fn = "compare_sets" /\ ret.kind # "none") =>
        /\ ret.kind = "return"
        /\ call.set1 \cup call.set2 # {}
               => ret.value = Ratio(Cardinality(call.set1 \cap call.set2),
                                    Cardinality(call.set1 \cup call.set2))

(* C9: shingling(s, k), k >= 1, returns the set of the CRC-32 values of    *)
(* the windows s[i:i+k], i in 0..len(s)-k; it holds at most len(s)-k+1     *)
(* values, and it is empty, no error being raised, when len(s) < k.        *)
C9_ShinglingWindows ==
    (call.fn = "shingling" /\ ret.kind # "none") =>
        /\ ret.kind = "return"
        /\ ret.value = {crc32(SubSeq(call.s, i + 1, i + call.k)) :
                            i \in 0..(Len(call.s) - call.k)}
        /\ Len(call.s) >= call.k
               => Cardinality(ret.value) <= Len(call.s) - call.k + 1
        /\ Len(call.s) < call.k => ret.value = {}

\* a text with a repeated window: fewer shingles than windows
C9_Witness ==
    /\ Returned("shingling")
    /\ Cardinality(ret.value) > 1
    /\ Cardinality(ret.value) < Len(call.s) - call.k + 1

(* C4: for a non-empty shingle set, min_hashing returns a sequence of      *)
(* length no_of_hash_functions whose component i is the least              *)
(* (a[i] * x + b[i]) % max_hash_value over the shingles x, whatever the    *)
(* order in which the set is iterated.                                     *)
C4_MinHashComponents ==
    (Returned("min_hashing") /\ call.hashed_shingle_set # {}) =>
        /\ Len(ret.value) = call.no_of_hash_functions
        /\ \A i \in 1..call.no_of_hash_functions :
              ret.value[i] = Min({HashValue(random_coefficients_a[i], x,
                                            random_coefficients_b[i],
                                            call.max_hash_value) :
                                      x \in call.hashed_shingle_set})

\* two hash functions with different minima over a set of several shingles
C4_Witness ==
    /\ Returned("min_hashing")
    /\ Cardinality(call.hashed_shingle_set) >= 2
    /\ call.no_of_hash_functions >= 2
    /\ ret.value[1] < ret.value[2]

(* C3: the list generate_random_coefficient returns has                    *)
(* no_of_hash_functions elements and holds no value twice.                 *)
C3_NoDuplicates ==
    gen.pc = "done" =>
        /\ Len(gen.random_numbers_list) = gen.no_of_hash_functions
        /\ \A i, j \in 1..Len(gen.random_numbers_list) :
              i # j => gen.random_numbers_list[i] # gen.random_numbers_list[j]

(* C5: generate_random_coefficient always ends, by returning or, when no   *)
(* unused value is left to draw, by raising an error.                      *)
C5_Terminates == <>(gen.pc \in {"done", "raised"})

\* the signature of a shingle set under the current coefficient lists
SignatureOf(set) ==
    [i \in 1..main_no_of_hash_functions |->
        IF set = {} THEN None
        ELSE Min({HashValue(random_coefficients_a[i], x, random_coefficients_b[i],
                            main_max_hash_value) : x \in set})]

\* the pairs of the run compared so far, each <<book1, book2, sim_score>>
Scored == Range(sim_books) \cup Range(not_sim_books)

(* C2: two books of the same normalized text and at least one shingle have *)
(* the same shingle set and the same signature, compare_sets gives 1.0 for *)
(* them and the score compare_signatures gave for them is 1.0.             *)
C2_IdenticalDocuments ==
    \A c \in Scored :
        (/\ parsed_docs_map[c[1]] = parsed_docs_map[c[2]]
         /\ hashed_shingles_docs[c[1]] # {}) =>
            /\ hashed_shingles_docs[c[1]] = hashed_shingles_docs[c[2]]
            /\ min_hashed_shingles_docs[c[1]] = min_hashed_shingles_docs[c[2]]
            /\ LET r == compare_sets(hashed_shingles_docs[c[1]],
                                     hashed_shingles_docs[c[2]])
               IN  r.kind = "return" /\ IsOne(r.value)
            /\ IsOne(c[3])

(* C6: a book whose normalized text is shorter than k never gets a         *)
(* signature of None components, and no score is produced for a pair it    *)
(* belongs to.                                                             *)
C6_EmptySetRejected ==
    /\ \A book \in DOMAIN min_hashed_shingles_docs :
          Len(parsed_docs_map[book]) < k
              => None \notin Range(min_hashed_shingles_docs[book])
    /\ \A c \in Scored :
          Len(parsed_docs_map[c[1]]) >= k /\ Len(parsed_docs_map[c[2]]) >= k

(* C10: within a run, each coefficient list is assigned once, by the call  *)
(* of lines 194 and 195 before the first min_hashing call, and stays as it *)
(* is until the last pair is compared; both signatures of a compared pair  *)
(* are the signatures of their shingle sets under these lists.             *)
C10_CoefficientsFixed ==
    [][/\ random_coefficients_a' # random_coefficients_a
              => (pc = "gen_a" /\ pc' = "gen_b") \/ pc' = "input"
       /\ random_coefficients_b' # random_coefficients_b
              => (pc = "gen_b" /\ pc' = "minhash") \/ pc' = "input"
       /\ pc \in {"minhash", "compare"} /\ pc' # "input"
              => UNCHANGED coefVars
       /\ pc' = "gen_a" => pc \in {"shingle", "gen_a"}
       /\ pc' = "gen_b" => pc \in {"gen_a", "gen_b"}
       /\ pc' = "minhash" => pc \in {"gen_b", "minhash"}
       /\ (pc = "compare" /\ pc' # "input") =>
              \A j \in 1..2 :
                  min_hashed_shingles_docs[combination[j]]
                      = SignatureOf(hashed_shingles_docs[combination[j]])
      ]_vars

\* every pair of a run has been compared
C10_Witness ==
    /\ pc = "compare"
    /\ Len(unique_doc_combinations) > 0
    /\ Len(sim_books) + Len(not_sim_books) = Len(unique_doc_combinations)
    /\ Len(random_coefficients_a) = main_no_of_hash_functions
    /\ random_coefficients_a # random_coefficients_b

====
